---- MODULE Spec2Model ----
(***************************************************************************)
(* Model of Tools_and_scripts/gaz.py (the gazetteer generator) and of      *)
(* Tools_and_scripts/geojson_add_names.py (the name backfiller).           *)
(*                                                                         *)
(* A Python str is a sequence of one-character strings, so that strip,     *)
(* split, join, re.sub, len and the comparison of strings are computed     *)
(* and not assumed.  "E_acute" stands for the single character U+00C9.     *)
(* A Python dict is a function whose DOMAIN is its set of keys.  A         *)
(* Division is a record of an arena (divs); its row field is the index of  *)
(* the dict object in rowStore, so that two divisions created from one CSV *)
(* row share one dict, as they do in the program.                          *)
(***************************************************************************)
EXTENDS Integers, Sequences, FiniteSets, TLC

\* ------------------------------------------------------------------ bounds
MaxLevels == 3
MaxRows == 2
MaxRuns == 2
MaxFeatures == 1

\* ----------------------------------------------------------------- strings
\* Python's None, where a str is expected.
NONE == <<"None">>

\* Code points of the characters that occur in division names.
Ord(c) ==
    CASE c = " " -> 32  [] c = "(" -> 40  [] c = ")" -> 41
      [] c = "A" -> 65  [] c = "B" -> 66  [] c = "E" -> 69
      [] c = "H" -> 72  [] c = "O" -> 79  [] c = "R" -> 82
      [] c = "T" -> 84  [] c = "_" -> 95  [] c = "e" -> 101
      [] c = "h" -> 104 [] c = "o" -> 111 [] c = "r" -> 114
      [] c = "t" -> 116 [] c = "v" -> 118 [] c = "~" -> 126
      [] c = "E_acute" -> 201

\* a < b for two str.
RECURSIVE StrLess(_, _)
StrLess(a, b) ==
    IF a = <<>> THEN b # <<>>
    ELSE IF b = <<>> THEN FALSE
    ELSE IF Head(a) = Head(b) THEN StrLess(Tail(a), Tail(b))
    ELSE Ord(Head(a)) < Ord(Head(b))

\* a < b for two lists of str (the sort keys).
RECURSIVE KeyLess(_, _)
KeyLess(a, b) ==
    IF a = <<>> THEN b # <<>>
    ELSE IF b = <<>> THEN FALSE
    ELSE IF Head(a) = Head(b) THEN KeyLess(Tail(a), Tail(b))
    ELSE StrLess(Head(a), Head(b))

IsSpace(c) == c = " "

\* str.split(): the maximal runs of non-whitespace characters, in order;
\* word is the run being read and words the runs read so far.
RECURSIVE SplitFrom(_, _, _)
SplitFrom(s, word, words) ==
    IF s = <<>>
    THEN IF word = <<>> THEN words ELSE Append(words, word)
    ELSE IF IsSpace(Head(s))
    THEN SplitFrom(Tail(s), <<>>, IF word = <<>> THEN words ELSE Append(words, word))
    ELSE SplitFrom(Tail(s), Append(word, Head(s)), words)

Split(s) == SplitFrom(s, <<>>, <<>>)

\* sep.join(words)
RECURSIVE Join(_, _)
Join(sep, words) ==
    IF words = <<>> THEN <<>>
    ELSE IF Len(words) = 1 THEN words[1]
    ELSE words[1] \o sep \o Join(sep, Tail(words))

\* str.strip()
RECURSIVE LStrip(_)
LStrip(s) == IF s # <<>> /\ IsSpace(Head(s)) THEN LStrip(Tail(s)) ELSE s

RECURSIVE RStrip(_)
RStrip(s) ==
    IF s # <<>> /\ IsSpace(s[Len(s)]) THEN RStrip(SubSeq(s, 1, Len(s) - 1)) ELSE s

Strip(s) == RStrip(LStrip(s))

\* re.sub(r'[<>&_]', ' ', s)
SubForbidden(s) ==
    [i \in 1..Len(s) |-> IF s[i] \in {"<", ">", "&", "_"} THEN " " ELSE s[i]]

\* x or ''
OrEmpty(x) == IF x = NONE THEN <<>> ELSE x

\* x or None, for a str x
OrNone(x) == IF x = <<>> THEN NONE ELSE x

OtherRaw == <<"O", "T", "H", "E", "R">>
OtherName == <<"(", "o", "t", "h", "e", "r", ")">>

normalize_name(name) ==
    IF Strip(OrEmpty(name)) = OtherRaw THEN OtherName
    ELSE Join(<<" ">>, Split(SubForbidden(OrEmpty(name))))

\* ------------------------------------------------------------------ levels
Level(name, abbr, key) == [name |-> name, abbr |-> abbr, key |-> key]

DEFAULT_LEVELS ==
    << Level("District", "D", "loc_adm1"),
       Level("Chiefdom", "C", "loc_adm2"),
       Level("Section", "S", "loc_adm3"),
       Level("Village", "V", "VILLAGE_NAME") >>

Min(a, b) == IF a < b THEN a ELSE b

\* The schemas of the runs: the default one and its suffixes given on the
\* command line as abbr/name/key (S/Section/loc_adm3 V/Village/VILLAGE_NAME).
Schemas ==
    { SubSeq(DEFAULT_LEVELS, Len(DEFAULT_LEVELS) - n + 1, Len(DEFAULT_LEVELS)) :
        n \in 1..Min(MaxLevels, Len(DEFAULT_LEVELS)) }

LevelKeys(lv) == { lv[i].key : i \in 1..Len(lv) }

\* ------------------------------------------------------------- input files
OptionalColumns ==
    {"ALT_VILLAGE_NAME", "HISTORICAL_NAME", "CHIEF_NAME", "VILLAGE_NAME_MEANING"}

\* The CSV has all the optional per-leaf columns, or lacks one of them.
Headers(lv) ==
    { LevelKeys(lv) \cup cols :
        cols \in {OptionalColumns} \cup { OptionalColumns \ {c} : c \in OptionalColumns } }

\* Values of the non-leaf columns: every row is of the one district "A";
\* its chiefdoms and sections are named "A" and "B".
NonLeafRaw(key) ==
    IF key = "loc_adm1" THEN { <<" ", "A", "_">> } ELSE { <<"B">>, <<" ", "A", "_">> }

\* The leaf column and the per-leaf columns of a row.
LeafParts ==
    { [VILLAGE_NAME |-> <<"O", "T", "H", "E", "R">>,
       CHIEF_NAME |-> <<"C", "h", "i", "e", "f", " ", "B", "o">>,
       ALT_VILLAGE_NAME |-> <<>>,
       HISTORICAL_NAME |-> <<>>,
       VILLAGE_NAME_MEANING |-> <<>>],
      [VILLAGE_NAME |-> <<"E_acute">>,
       CHIEF_NAME |-> <<"C", "h", "i", "e", "f", " ", "A", "b", "u", " ", "B", "a", "k", "a", "r", "r", " ", "S", "e", "s", "a", "y", " ", "K", "a", "m", "a", "r", "a">>,
       ALT_VILLAGE_NAME |-> <<"O", "l", "d", " ", "K", "r", "u", " ", "T", "o", "w", "n", " ", "b", "y", " ", "t", "h", "e", " ", "r", "i", "v", "e", "r", " ", "b", "e", "n", "d">>,
       HISTORICAL_NAME |-> <<"E", "h">>,
       VILLAGE_NAME_MEANING |-> <<"h", "i", "l", "l">>],
      [VILLAGE_NAME |-> <<" ">>,
       CHIEF_NAME |-> <<>>,
       ALT_VILLAGE_NAME |-> <<"A", "b">>,
       HISTORICAL_NAME |-> <<>>,
       VILLAGE_NAME_MEANING |-> <<>>] }

\* The dicts csv.DictReader can yield for a file with this header.
Rows(lv, hdr) ==
    LET nonLeafKeys == { lv[i].key : i \in 1..(Len(lv) - 1) }
        nonLeafParts ==
            { f \in [nonLeafKeys -> UNION { NonLeafRaw(k) : k \in nonLeafKeys }] :
                \A k \in nonLeafKeys : f[k] \in NonLeafRaw(k) }
    IN { [k \in hdr |-> IF k \in nonLeafKeys THEN nl[k] ELSE lp[k]] :
           lp \in LeafParts, nl \in nonLeafParts }

\* ------------------------------------------------------------------- state
VARIABLES
    levels,          \* main: levels
    header,          \* the columns of the input CSV
    csvRows,         \* the rows of the input CSV, as written in the file
    rowStore,        \* the dict objects: ROOT's row, then those of DictReader
    divs,            \* the Division objects; divs[ROOT] is the sentinel
    division_lists,  \* main: division_lists
    indexes,         \* main: indexes
    gazetteer,       \* what write_gazetteer wrote
    menu,            \* what write_csv_menu_tree wrote
    pc,              \* the position of main
    run,             \* the number of the current run of the builder
    firstRun,        \* what the first run of the builder returned
    geoInput,        \* the features of the input file
    features,        \* geojson['features']
    fpos,            \* the features the loop has gone through
    geoOutput,       \* the features json.dump wrote
    gpc              \* the position of geojson_add_names.py

gazVars == << levels, header, csvRows, rowStore, divs, division_lists, indexes,
              gazetteer, menu, pc, run, firstRun >>
geoVars == << geoInput, features, fpos, geoOutput, gpc >>
vars == << gazVars, geoVars >>

Division(name, path, children, row) ==
    [name |-> name, path |-> path, children |-> children, row |-> row]

\* The index of the sentinel in divs, and ROOT itself as the module creates it.
ROOT == 1
RootDivision == Division(<<>>, <<>>, <<>>, 1)

\* ---------------------------------------------------------- read_divisions
\* FindChild as it would be if no level looked for an existing child.
FindChildAlwaysNew(D, node, name, isLeaf) == 0

\* for child in node.children: if child.name == name and level is not
\* levels[-1]: break -- the child the loop stops at, 0 when it runs to its else.
FindChild(D, node, name, isLeaf) ==
    LET hits == { j \in 1..Len(D[node].children) :
                    D[D[node].children[j]].name = name /\ ~isLeaf }
    IN IF hits = {} THEN 0
       ELSE D[node].children[CHOOSE j \in hits : \A k \in hits : j <= k]

\* The body of "for i, (level, name) in enumerate(zip(levels, names))" from
\* level i on; st is [divs, lists].
RECURSIVE Descend(_, _, _, _, _, _)
Descend(st, i, node, names, rowId, nLevels) ==
    IF i > nLevels THEN st
    ELSE LET name == normalize_name(names[i])
         IN IF name = <<>> THEN st
            ELSE LET found == FindChild(st.divs, node, name, i = nLevels)
                     new == Len(st.divs) + 1
                     child == Division(name, Append(st.divs[node].path, name),
                                       <<>>, rowId)
                     added ==
                        [divs |-> Append(
                             [st.divs EXCEPT ![node].children = Append(@, new)],
                             child),
                         lists |-> [st.lists EXCEPT ![i] = Append(@, new)]]
                 IN IF found # 0
                    THEN Descend(st, i + 1, found, names, rowId, nLevels)
                    ELSE Descend(added, i + 1, new, names, rowId, nLevels)

\* names = [row[level.key].strip() or None for level in levels]
RowNames(row, lv) == [i \in 1..Len(lv) |-> OrNone(Strip(row[lv[i].key]))]

RECURSIVE ReadRows(_, _, _, _)
ReadRows(st, rows, k, lv) ==
    IF k > Len(rows) THEN st
    ELSE LET rowId == Len(st.rowStore) + 1
             d == Descend([divs |-> st.divs, lists |-> st.lists], 1, ROOT,
                          RowNames(rows[k], lv), rowId, Len(lv))
         IN ReadRows([divs |-> d.divs, lists |-> d.lists,
                      rowStore |-> Append(st.rowStore, rows[k])],
                     rows, k + 1, lv)

read_divisions(rows, lv, D, RS) ==
    ReadRows([divs |-> D, lists |-> [i \in 1..Len(lv) |-> <<>>], rowStore |-> RS],
             rows, 1, lv)

\* ------------------------------------------------------------------ sorting
SortKey(path) ==
    [i \in 1..Len(path) |->
        IF path[i] \in {OtherRaw, OtherName} THEN <<"~">> ELSE path[i]]

\* sorted() is stable: x goes before the first element whose key is greater.
InsertSorted(D, sorted, x) ==
    LET after == { j \in 1..Len(sorted) :
                     KeyLess(SortKey(D[x].path), SortKey(D[sorted[j]].path)) }
        at == IF after = {} THEN Len(sorted) + 1
              ELSE CHOOSE j \in after : \A k \in after : j <= k
    IN SubSeq(sorted, 1, at - 1) \o <<x>> \o SubSeq(sorted, at, Len(sorted))

RECURSIVE SortFrom(_, _, _, _)
SortFrom(D, sorted, ids, k) ==
    IF k > Len(ids) THEN sorted
    ELSE SortFrom(D, InsertSorted(D, sorted, ids[k]), ids, k + 1)

sort_divisions(D, ids) == SortFrom(D, <<>>, ids, 1)

\* indexes[division.path] = j + 1, for j from the k-th element on (j is 0-based).
RECURSIVE NumberFrom(_, _, _, _)
NumberFrom(idx, D, sorted, k) ==
    IF k > Len(sorted) THEN idx
    ELSE LET p == D[sorted[k]].path
         IN NumberFrom([q \in (DOMAIN idx) \cup {p} |-> IF q = p THEN (k - 1) + 1 ELSE idx[q]],
                       D, sorted, k + 1)

RECURSIVE NumberLevels(_, _, _, _)
NumberLevels(idx, D, sortedLists, i) ==
    IF i > Len(sortedLists) THEN idx
    ELSE NumberLevels(NumberFrom(idx, D, sortedLists[i], 1), D, sortedLists, i + 1)

sort_and_number_divisions(D, lists) ==
    LET sortedLists == [i \in 1..Len(lists) |-> sort_divisions(D, lists[i])]
    IN [lists |-> sortedLists, indexes |-> NumberLevels(<<>>, D, sortedLists, 1)]

\* --------------------------------------------------------- fix_up_division
\* d.get(k, '') and d[k] = v for a dict d
Get(d, k) == IF k \in DOMAIN d THEN d[k] ELSE <<>>
DictSet(d, k, v) == [x \in (DOMAIN d) \cup {k} |-> IF x = k THEN v ELSE d[x]]

MaxOtherNameLength == 24
MaxChiefLength == 20
EllipsisLength == 3

fit_length(text, max_length) ==
    IF Len(text) > max_length
    THEN SubSeq(text, 1, max_length - EllipsisLength) \o <<".", ".", ".">>
    ELSE text

LineBreak == <<"<", "b", "r", ">", "&", "n", "b", "s", "p", ";", "&", "n", "b", "s", "p", ";", "&", "n", "b", "s", "p", ";", "&", "n", "b", "s", "p", ";">>

\* VILLAGE_OTHER_NAMES as fix_up_division derives it from the row.
OtherNames(row) ==
    LET alt == Strip(Get(row, "ALT_VILLAGE_NAME"))
        hist == Strip(Get(row, "HISTORICAL_NAME"))
        others ==
            (IF alt # <<>> THEN << fit_length(alt, MaxOtherNameLength) >> ELSE <<>>)
            \o (IF hist # <<>>
                THEN << fit_length(hist, MaxOtherNameLength) \o <<" ", "(", "o", "l", "d", ")">> >>
                ELSE <<>>)
    IN Join(<<"<", "b", "r", ">">>, others)

\* CHIEF_NAME as fix_up_division rewrites it.
FormatChief(text) ==
    LET words == Split(text)
        dropped == IF words # <<>> /\ words[1] = <<"C", "h", "i", "e", "f">> THEN Tail(words) ELSE words
        wrapped ==
            IF Len(dropped) > 2 /\ Len(Join(<<" ">>, dropped)) > MaxChiefLength
            THEN SubSeq(dropped, 1, 2) \o << LineBreak >>
                 \o SubSeq(dropped, 3, Len(dropped))
            ELSE dropped
    IN Join(<<" ">>, wrapped)

\* The dict division.row after fix_up_division(division).
fix_up_division(row) ==
    DictSet(DictSet(row, "VILLAGE_OTHER_NAMES", OtherNames(row)),
            "CHIEF_NAME", FormatChief(Get(row, "CHIEF_NAME")))

\* ---------------------------------------------------------- write_gazetteer
NoDocument == [written |-> FALSE]

LeafItemKeys ==
    {"VILLAGE_NAME", "VILLAGE_OTHER_NAMES", "CHIEF_NAME", "VILLAGE_NAME_MEANING"}

\* item_template.format(level=child_level, child=child, index=indexes[child.path])
Item(row, D, child, child_level, idx, leafTemplate) ==
    IF leafTemplate
    THEN [leaf |-> TRUE, child |-> child,
          name |-> row["VILLAGE_NAME"],
          others |-> row["VILLAGE_OTHER_NAMES"],
          chief |-> row["CHIEF_NAME"],
          meaning |-> row["VILLAGE_NAME_MEANING"]]
    ELSE [leaf |-> FALSE, child |-> child,
          name |-> D[child].name,
          abbr |-> child_level.abbr,
          index |-> idx[D[child].path]]

\* "for child in sort_divisions(division.children)" from the k-th child on;
\* g is [rows, items, failed], failed when a lookup raises KeyError.
RECURSIVE RenderChildren(_, _, _, _, _, _, _)
RenderChildren(g, D, children, k, child_level, idx, leafTemplate) ==
    IF g.failed \/ k > Len(children) THEN g
    ELSE LET child == children[k]
             r == D[child].row
             fixed == fix_up_division(g.rows[r])
             rows == [g.rows EXCEPT ![r] = fixed]
             raises == \/ D[child].path \notin DOMAIN idx
                       \/ leafTemplate /\ ~(LeafItemKeys \subseteq DOMAIN fixed)
         IN IF raises
            THEN [g EXCEPT !.rows = rows, !.failed = TRUE]
            ELSE RenderChildren(
                     [g EXCEPT !.rows = rows,
                               !.items = Append(@, Item(fixed, D, child, child_level,
                                                        idx, leafTemplate))],
                     D, children, k + 1, child_level, idx, leafTemplate)

\* The levels that get pages: zip(levels, levels[1:], division_lists).
PageLevels(lv, lists) == 1..Min(Len(lv) - 1, Len(lists))

Ancestors(lv, path) ==
    [a \in 1..Min(Len(lv), Len(path) - 1) |-> [level |-> lv[a].name, name |-> path[a]]]

\* "for division in divisions" of level i from the k-th division on;
\* w is [rows, pages, failed].
RECURSIVE RenderDivisions(_, _, _, _, _, _, _)
RenderDivisions(w, D, lv, lists, idx, i, k) ==
    IF w.failed \/ k > Len(lists[i]) THEN w
    ELSE LET division == lists[i][k]
             g == RenderChildren([rows |-> w.rows, items |-> <<>>, failed |-> FALSE],
                                 D, sort_divisions(D, D[division].children), 1,
                                 lv[i + 1], idx, i + 1 = Len(lv))
             page == [level |-> i,
                      abbr |-> lv[i].abbr,
                      index |-> idx[D[division].path],
                      division |-> division,
                      title |-> [level |-> lv[i].name, name |-> D[division].name],
                      ancestors |-> Ancestors(lv, D[division].path),
                      items |-> g.items]
         IN IF g.failed \/ D[division].path \notin DOMAIN idx
            THEN [w EXCEPT !.rows = g.rows, !.failed = TRUE]
            ELSE RenderDivisions([w EXCEPT !.rows = g.rows, !.pages = Append(@, page)],
                                 D, lv, lists, idx, i, k + 1)

RECURSIVE RenderLevels(_, _, _, _, _, _)
RenderLevels(w, D, lv, lists, idx, i) ==
    IF w.failed \/ i \notin PageLevels(lv, lists) THEN w
    ELSE RenderLevels(RenderDivisions(w, D, lv, lists, idx, i, 1),
                      D, lv, lists, idx, i + 1)

\* Contents as it would be for zip(levels, division_lists): the leaf level too.
ContentsAllLevels(lv, lists) ==
    [i \in 1..Min(Len(lv), Len(lists)) |->
        [name |-> lv[i].name, abbr |-> lv[i].abbr, first |-> 1, count |-> Len(lists[i])]]

\* CONTENT_ITEM_TEMPLATE for zip(levels[:-1], division_lists)
Contents(lv, lists) ==
    [i \in 1..Min(Len(lv) - 1, Len(lists)) |->
        [name |-> lv[i].name, abbr |-> lv[i].abbr, first |-> 1, count |-> Len(lists[i])]]

\* [rows, document, failed]: the rows as the calls of fix_up_division leave
\* them, and the document handed to out_file.write unless KeyError was raised.
write_gazetteer(lv, lists, idx, D, RS) ==
    LET w == RenderLevels([rows |-> RS, pages |-> <<>>, failed |-> FALSE],
                          D, lv, lists, idx, 1)
    IN [rows |-> w.rows,
        failed |-> w.failed,
        document |-> IF w.failed THEN NoDocument
                     ELSE [written |-> TRUE,
                           contents |-> Contents(lv, lists),
                           pages |-> w.pages]]

\* ------------------------------------------------------ write_csv_menu_tree
ChildNames(D, division) ==
    LET sorted == sort_divisions(D, D[division].children)
    IN [j \in 1..Len(sorted) |-> D[sorted[j]].name]

InSeq(x, seq) == \E j \in 1..Len(seq) : seq[j] = x

\* The column of a division of divisionsAll[g], where divisionsAll is
\* [[ROOT]] + division_lists[:-1]; "divisions is division_lists[-2]" compares
\* list objects: it holds for the last list of division_lists[:-1] alone.
Column(D, division, g, lists) ==
    LET names == ChildNames(D, division)
        isPenultimate == g - 1 = Len(lists) - 1
    IN << Join(<<"/">>, D[division].path) >>
       \o (IF isPenultimate /\ ~InSeq(OtherName, names)
           THEN Append(names, OtherName) ELSE names)

MaxOf(set) == CHOOSE m \in set : \A x \in set : x <= m

\* transpose(columns), then csv.writer, which writes None as the empty string.
transpose(columns) ==
    LET width == MaxOf({ Len(columns[c]) : c \in 1..Len(columns) })
    IN [r \in 1..width |->
          [c \in 1..Len(columns) |->
              IF r <= Len(columns[c]) THEN columns[c][r] ELSE NONE]]

WrittenCsv(rows) ==
    [r \in 1..Len(rows) |-> [c \in 1..Len(rows[r]) |-> OrEmpty(rows[r][c])]]

RECURSIVE Flatten(_)
Flatten(seqs) == IF seqs = <<>> THEN <<>> ELSE Head(seqs) \o Flatten(Tail(seqs))

\* [failed, columns, rows]; division_lists[-2] raises IndexError when there
\* are fewer than two lists, at the first division the loop visits (ROOT).
write_csv_menu_tree(lists, D) ==
    LET divisionsAll == << <<ROOT>> >> \o SubSeq(lists, 1, Len(lists) - 1)
        columns ==
            Flatten([g \in 1..Len(divisionsAll) |->
                       [k \in 1..Len(divisionsAll[g]) |->
                           Column(D, divisionsAll[g][k], g, lists)]])
    IN IF Len(lists) < 2
       THEN [failed |-> TRUE, columns |-> <<>>, rows |-> <<>>]
       ELSE [failed |-> FALSE, columns |-> columns,
             rows |-> WrittenCsv(transpose(columns))]

NoMenu == [failed |-> FALSE, columns |-> <<>>, rows |-> <<>>]

\* ------------------------------------------------------- geojson_add_names
ADM_NAME_KEYS ==
    << "ADM0_NAME", "ADM1_NAME", "ADM2_NAME", "ADM3_NAME", "ADM4_NAME", "ADM5_NAME" >>
ADMIN_NAME_KEYS ==
    << "admin0Name", "admin1Name", "admin2Name", "admin3Name", "admin4Name",
       "admin5Name" >>

\* sum([['ADM%d_NAME' % i, 'admin%dName' % i] for i in range(6)], [])
\*   + ['NAME', 'Name', 'name']
name_keys ==
    [k \in 1..(2 * Len(ADM_NAME_KEYS)) |->
        IF k % 2 = 1 THEN ADM_NAME_KEYS[(k + 1) \div 2] ELSE ADMIN_NAME_KEYS[k \div 2]]
    \o << "NAME", "Name", "name" >>

\* Reversed as it would be if the loop went through name_keys forwards.
NotReversed(seq) == seq

Reversed(seq) == [k \in 1..Len(seq) |-> seq[Len(seq) + 1 - k]]

\* JSON null, as the value of a feature's "properties".
JNull == [json_null |-> TRUE]
IsNull(v) == DOMAIN v = {"json_null"}

\* bool(v) for a JSON string v, and for a "properties" value p
TruthyStr(v) == v # ""
TruthyProps(p) == ~IsNull(p) /\ DOMAIN p # {}

\* props.get(key), None shown as the (falsy) empty string
PropGet(props, key) == IF key \in DOMAIN props THEN props[key] ELSE ""

\* The key at which "for key in reversed(name_keys)" breaks, "" when it ends.
FirstHit(props, keys) ==
    LET hits == { k \in 1..Len(keys) : TruthyStr(PropGet(props, keys[k])) }
    IN IF hits = {} THEN ""
       ELSE keys[CHOOSE k \in hits : \A h \in hits : k <= h]

\* The body of "for feature in geojson['features']".
Backfill(feature) ==
    IF "properties" \notin DOMAIN feature THEN feature
    ELSE LET props == feature["properties"]
         IN IF TruthyProps(props) /\ ~TruthyStr(PropGet(props, "name"))
            THEN LET key == FirstHit(props, Reversed(name_keys))
                 IN IF key = "" THEN feature
                    ELSE [feature EXCEPT
                            !["properties"] =
                                [x \in (DOMAIN props) \cup {"name"} |->
                                    IF x = "name" THEN props[key] ELSE props[x]]]
            ELSE feature

\* The property keys of the input features, and the value of each when it is
\* not the empty string.
InputKeys == {"name", "Name", "NAME", "admin2Name", "admin1Name", "population"}
InputValue(k) ==
    CASE k = "name" -> "n"
      [] k = "Name" -> "Y"
      [] k = "NAME" -> "U"
      [] k = "admin2Name" -> "X"
      [] k = "admin1Name" -> "W"
      [] k = "population" -> "9"

PropertyDicts ==
    { [k \in ks |-> IF k \in empty THEN "" ELSE InputValue(k)] :
        ks \in SUBSET InputKeys, empty \in SUBSET (InputKeys \ {"population"}) }

InputFeatures ==
    { [type |-> "Feature"], [type |-> "Feature", properties |-> JNull] }
    \cup { [type |-> "Feature", properties |-> p] : p \in PropertyDicts }

\* -------------------------------------------------------------- the programs
GazIdle ==
    /\ levels = <<>> /\ header = {} /\ csvRows = <<>>
    /\ rowStore = << <<>> >> /\ divs = << RootDivision >>
    /\ division_lists = <<>> /\ indexes = <<>>
    /\ gazetteer = NoDocument /\ menu = NoMenu
    /\ pc = "idle" /\ run = 0 /\ firstRun = <<>>

GeoIdle == features = <<>> /\ geoInput = <<>> /\ fpos = 0 /\ geoOutput = <<>> /\ gpc = "idle"

\* gaz.py is started on a CSV file with a schema.
GazInit ==
    /\ levels \in Schemas
    /\ header \in Headers(levels)
    /\ csvRows \in UNION { [1..n -> Rows(levels, header)] : n \in 0..MaxRows }
    /\ rowStore = << <<>> >>
    /\ divs = << RootDivision >>
    /\ division_lists = <<>>
    /\ indexes = <<>>
    /\ gazetteer = NoDocument
    /\ menu = NoMenu
    /\ pc = "start"
    /\ run = 1
    /\ firstRun = <<>>

Init == GazInit /\ GeoIdle

\* division_lists = read_divisions(open(args.input), levels)
ReadDivisions ==
    /\ pc = "start"
    /\ LET r == read_divisions(csvRows, levels, divs, rowStore)
       IN /\ divs' = r.divs
          /\ rowStore' = r.rowStore
          /\ division_lists' = r.lists
    /\ pc' = "read"
    /\ UNCHANGED << levels, header, csvRows, indexes, gazetteer, menu, run, firstRun,
                    geoVars >>

\* division_lists, indexes = sort_and_number_divisions(division_lists)
SortAndNumber ==
    /\ pc = "read"
    /\ LET r == sort_and_number_divisions(divs, division_lists)
       IN /\ division_lists' = r.lists
          /\ indexes' = r.indexes
    /\ pc' = "sorted"
    /\ UNCHANGED << levels, header, csvRows, rowStore, divs, gazetteer, menu, run,
                    firstRun, geoVars >>

\* write_gazetteer(out_file, levels, division_lists, indexes, args.input)
WriteGazetteer ==
    /\ pc = "sorted"
    /\ LET r == write_gazetteer(levels, division_lists, indexes, divs, rowStore)
       IN /\ rowStore' = r.rows
          /\ gazetteer' = r.document
          /\ pc' = IF r.failed THEN "gazetteer_failed" ELSE "gazetteer"
    /\ UNCHANGED << levels, header, csvRows, divs, division_lists, indexes, menu, run,
                    firstRun, geoVars >>

\* write_csv_menu_tree(out_file, levels, division_lists)
WriteCsvMenuTree ==
    /\ pc = "gazetteer"
    /\ LET r == write_csv_menu_tree(division_lists, divs)
       IN /\ menu' = r
          /\ pc' = IF r.failed THEN "menu_failed" ELSE "done"
    /\ UNCHANGED << levels, header, csvRows, rowStore, divs, division_lists, indexes,
                    gazetteer, run, firstRun, geoVars >>

Next == ReadDivisions \/ SortAndNumber \/ WriteGazetteer \/ WriteCsvMenuTree

Spec == Init /\ [][Next]_vars

\* What a run of the builder returned: the paths of each list, and the index.
BuilderResult ==
    [paths |-> [i \in 1..Len(division_lists) |->
                  [j \in 1..Len(division_lists[i]) |-> divs[division_lists[i][j]].path]],
     indexes |-> indexes]

\* The builder is called again in the same process, on the same file and
\* schema: ROOT is the module's object and keeps the children it was given.
RunBuilderAgain ==
    /\ pc = "sorted"
    /\ run < MaxRuns
    /\ firstRun' = IF run = 1 THEN BuilderResult ELSE firstRun
    /\ run' = run + 1
    /\ pc' = "start"
    /\ UNCHANGED << levels, header, csvRows, rowStore, divs, division_lists, indexes,
                    gazetteer, menu, geoVars >>

NextTwice ==
    ReadDivisions \/ SortAndNumber \/ RunBuilderAgain

SpecTwice == Init /\ [][NextTwice]_vars

\* geojson_add_names.py is started on a feature collection.
GeoInit ==
    /\ geoInput \in UNION { [1..n -> InputFeatures] : n \in 0..MaxFeatures }
    /\ features = geoInput
    /\ fpos = 0
    /\ geoOutput = <<>>
    /\ gpc = "loop"

\* One pass of "for feature in geojson['features']".
BackfillFeature ==
    /\ gpc = "loop"
    /\ fpos < Len(features)
    /\ features' = [features EXCEPT ![fpos + 1] = Backfill(@)]
    /\ fpos' = fpos + 1
    /\ UNCHANGED << geoInput, geoOutput, gpc, gazVars >>

\* json.dump(geojson, file, indent=2, sort_keys=True)
DumpGeojson ==
    /\ gpc = "loop"
    /\ fpos = Len(features)
    /\ geoOutput' = features
    /\ gpc' = "done"
    /\ UNCHANGED << geoInput, features, fpos, gazVars >>

NextGeo == BackfillFeature \/ DumpGeojson

InitGeo == GazIdle /\ GeoInit

SpecGeo == InitGeo /\ [][NextGeo]_vars

\* ================================================================== claims
\* The names of a CSV row at the levels, as read_divisions sees them.
NormalizedNames(row) ==
    [i \in 1..Len(levels) |-> normalize_name(RowNames(row, levels)[i])]

\* The rows, given by their names, that give a division with this path.
RowsOf(names, path) ==
    { r \in 1..Len(names) :
        \A i \in 1..Len(path) : names[r][i] # <<>> /\ names[r][i] = path[i] }

NonLeafLevels == 1..(Len(levels) - 1)

Built == pc \notin {"idle", "start"}
Numbered == pc \notin {"idle", "start", "read"}

\* C1: after read_divisions, the children of one parent at a non-leaf level
\* have distinct names, no division is twice in its parent's children or in
\* its level's list, a non-leaf level has one division for each distinct path
\* of the rows, and the row of a non-leaf division is the dict of the first
\* CSV row with its path.
C1_NonLeafSiblingsUnique ==
    Built =>
        LET names == [r \in 1..Len(csvRows) |-> NormalizedNames(csvRows[r])]
        IN
        /\ \A p \in 1..Len(divs) :
              Len(divs[p].path) + 1 \in NonLeafLevels =>
                  \A a, b \in 1..Len(divs[p].children) :
                      a # b =>
                          /\ divs[p].children[a] # divs[p].children[b]
                          /\ divs[divs[p].children[a]].name
                               # divs[divs[p].children[b]].name
        /\ \A i \in NonLeafLevels :
              /\ \A a, b \in 1..Len(division_lists[i]) :
                    a # b => division_lists[i][a] # division_lists[i][b]
              /\ \A r \in 1..Len(names) :
                    (\A k \in 1..i : names[r][k] # <<>>) =>
                        \E a \in 1..Len(division_lists[i]) :
                            divs[division_lists[i][a]].path = SubSeq(names[r], 1, i)
              /\ \A a \in 1..Len(division_lists[i]) :
                    LET d == divs[division_lists[i][a]]
                        rows == RowsOf(names, d.path)
                    IN /\ rows # {}
                       /\ Len(d.path) = i
                       /\ \A q \in rows : d.row - 1 <= q
                       /\ d.row - 1 \in rows

\* Two rows name the same chiefdom or section, and the one division made for
\* it has the leaves of both rows.
C1_Witness ==
    /\ pc = "read"
    /\ Len(levels) = 2
    /\ Len(csvRows) = 2
    /\ Len(division_lists[1]) = 1
    /\ Len(divs[division_lists[1][1]].children) = 2
    /\ divs[division_lists[1][1]].row = 2

\* C2: the rank the index gives for the path of a division is the position
\* of the division in the sorted list of its level, at every level.
C2_RankIsPosition ==
    Numbered =>
        \A i \in 1..Len(division_lists) :
            \A j \in 1..Len(division_lists[i]) :
                /\ divs[division_lists[i][j]].path \in DOMAIN indexes
                /\ indexes[divs[division_lists[i][j]].path] = j

\* C3: a second run of the builder on the same rows and schema returns the
\* paths, in the order, and the index that the first run returned.
C3_SecondRunSame ==
    (pc = "sorted" /\ run >= 2) => BuilderResult = firstRun

PagesOfLevel(i) ==
    LET OfLevel(page) == page.level = i
    IN SelectSeq(gazetteer.pages, OfLevel)

\* C4: the document has, for every non-leaf level, one page per division in
\* the sorted order of the level, numbered with the abbreviation of the level
\* and 1..n; the cover shows n for the level; no page is of the leaf level;
\* the pages of a level come before those of the next.
C4_PagesPerLevel ==
    gazetteer.written =>
        /\ Len(gazetteer.contents) = Len(levels) - 1
        /\ \A i \in NonLeafLevels :
              LET pages == PagesOfLevel(i)
                  n == Len(division_lists[i])
              IN /\ Len(pages) = n
                 /\ gazetteer.contents[i].count = n
                 /\ gazetteer.contents[i].abbr = levels[i].abbr
                 /\ \A k \in 1..n :
                       /\ pages[k].division = division_lists[i][k]
                       /\ pages[k].abbr = levels[i].abbr
                       /\ pages[k].index = k
                 /\ \A a, b \in 1..n :
                       a < b => ~KeyLess(SortKey(divs[pages[b].division].path),
                                         SortKey(divs[pages[a].division].path))
        /\ \A a \in 1..Len(gazetteer.pages) :
              /\ gazetteer.pages[a].level \in NonLeafLevels
              /\ \A b \in 1..Len(gazetteer.pages) :
                    a < b => gazetteer.pages[a].level <= gazetteer.pages[b].level

\* A document of a three-level schema with two pages of the first level, in
\* another order than the CSV gave them, and a page of the second level.
C4_Witness ==
    /\ gazetteer.written
    /\ Len(levels) = 3
    /\ Len(PagesOfLevel(1)) = 2
    /\ PagesOfLevel(1)[1].division > PagesOfLevel(1)[2].division
    /\ Len(PagesOfLevel(2)) >= 1

\* The divisions that get a column, in the order of the columns.
ColumnDivisions ==
    << ROOT >> \o Flatten(SubSeq(division_lists, 1, Len(division_lists) - 1))

\* C5: write_csv_menu_tree completes for every schema; the column of a
\* division of the level above the leaf level is the names of its sorted
\* children with "(other)" appended when none has that name, and every other
\* column is the names of the children.
C5_MenuTreeCatchAll ==
    /\ pc # "menu_failed"
    /\ pc = "done" =>
          /\ Len(menu.columns) = Len(ColumnDivisions)
          /\ \A c \in 1..Len(menu.columns) :
                LET d == ColumnDivisions[c]
                    names == ChildNames(divs, d)
                    cells == Tail(menu.columns[c])
                IN IF Len(divs[d].path) = Len(levels) - 1
                   THEN /\ InSeq(OtherName, cells)
                        /\ cells = IF InSeq(OtherName, names) THEN names
                                   ELSE Append(names, OtherName)
                   ELSE cells = names

\* C6: in a sorted list, a division named "(other)" comes after every sibling
\* with another name, and the siblings with other names are in the order of
\* their names.
C6_OtherSortsLast ==
    Numbered =>
        \A i \in 1..Len(division_lists) :
            \A a, b \in 1..Len(division_lists[i]) :
                LET da == divs[division_lists[i][a]]
                    db == divs[division_lists[i][b]]
                IN (a < b /\ SubSeq(da.path, 1, i - 1) = SubSeq(db.path, 1, i - 1)) =>
                       /\ da.name = OtherName => db.name = OtherName
                       /\ (da.name # OtherName /\ db.name # OtherName)
                             => ~StrLess(db.name, da.name)

LeafItems ==
    { item \in UNION { { page.items[k] : k \in 1..Len(page.items) } :
                         page \in { gazetteer.pages[a] : a \in 1..Len(gazetteer.pages) } } :
        item.leaf }

\* C7: when the CSV lacks an optional per-leaf column, write_gazetteer
\* completes and the cell of that column is empty in every leaf row.
C7_MissingColumnsRenderEmpty ==
    (OptionalColumns \ header # {} /\ pc # "idle") =>
        /\ pc # "gazetteer_failed"
        /\ gazetteer.written =>
              \A item \in LeafItems :
                  /\ "CHIEF_NAME" \notin header => item.chief = <<>>
                  /\ "VILLAGE_NAME_MEANING" \notin header => item.meaning = <<>>
                  /\ ("ALT_VILLAGE_NAME" \notin header /\ "HISTORICAL_NAME" \notin header)
                        => item.others = <<>>

\* The fallback keys in the order of the claim: Name, NAME, then the admin
\* levels from 5 down to 0.
FallbackRank(key) ==
    IF key = "Name" THEN 1
    ELSE IF key = "NAME" THEN 2
    ELSE 3 + (Len(ADM_NAME_KEYS)
              - (CHOOSE k \in 1..Len(ADM_NAME_KEYS) :
                    key \in {ADM_NAME_KEYS[k], ADMIN_NAME_KEYS[k]}))

FallbackKeys ==
    {"Name", "NAME"} \cup { ADM_NAME_KEYS[k] : k \in 1..Len(ADM_NAME_KEYS) }
                     \cup { ADMIN_NAME_KEYS[k] : k \in 1..Len(ADMIN_NAME_KEYS) }

\* C8: a feature without a property mapping or with a truthy name is left as
\* it is; otherwise its name becomes the value of the truthy fallback key of
\* the highest priority, and nothing else of the feature changes.
C8_BackfillByPriority ==
    /\ gpc = "done" => geoOutput = features
    /\ \A k \in 1..fpos :
          LET fin == geoInput[k]
              fout == features[k]
          IN IF \/ "properties" \notin DOMAIN fin
                \/ ~TruthyProps(fin["properties"])
                \/ TruthyStr(PropGet(fin["properties"], "name"))
             THEN fout = fin
             ELSE LET props == fin["properties"]
                      truthy == { key \in (DOMAIN props) \cap FallbackKeys :
                                    props[key] # "" }
                  IN IF truthy = {} THEN fout = fin
                     ELSE /\ DOMAIN fout = DOMAIN fin
                          /\ fout["type"] = fin["type"]
                          /\ DOMAIN fout["properties"] = (DOMAIN props) \cup {"name"}
                          /\ \A x \in (DOMAIN props) \ {"name"} :
                                fout["properties"][x] = props[x]
                          /\ \E best \in truthy :
                                /\ \A o \in truthy : FallbackRank(best) <= FallbackRank(o)
                                /\ fout["properties"]["name"] = props[best]

\* The feature of the claim, {admin2Name: 'X', Name: 'Y'} without name, has
\* gone through the loop and is named 'Y'.
C8_Witness ==
    \E k \in 1..fpos :
        /\ "properties" \in DOMAIN geoInput[k]
        /\ DOMAIN geoInput[k]["properties"] = {"admin2Name", "Name"}
        /\ geoInput[k]["properties"]["admin2Name"] = "X"
        /\ geoInput[k]["properties"]["Name"] = "Y"
        /\ features[k]["properties"]["name"] = "Y"

\* C9: every feature of the output has a name property.
C9_EveryFeatureNamed ==
    gpc = "done" =>
        \A k \in 1..Len(geoOutput) :
            /\ "properties" \in DOMAIN geoOutput[k]
            /\ "name" \in DOMAIN geoOutput[k]["properties"]

\* The dict of rowStore[r] as csv.DictReader made it.
OriginalRow(r) == csvRows[((r - 2) % Len(csvRows)) + 1]

LeafDivisions == { d \in 1..Len(divs) : Len(divs[d].path) = Len(levels) }

\* C10: the chief shown in a leaf row is one application of the formatting
\* to the value of the CSV, and rendering leaves the rows of no leaf as the
\* reader made them.
C10_LeafRowsFormattedOnce ==
    gazetteer.written =>
        /\ \A item \in LeafItems :
              item.chief = FormatChief(Get(OriginalRow(divs[item.child].row), "CHIEF_NAME"))
        /\ \A r \in 2..Len(rowStore) :
              (\A d \in LeafDivisions : divs[d].row # r) => rowStore[r] = OriginalRow(r)

====
